---- MODULE Spec2Model ----
(***************************************************************************)
(* Model of froster's archive pipeline (src/froster/froster.py, class      *)
(* Archiver): the archive registry froster-archives.json and its           *)
(* parent-chain lookup, the small-file packer, the checksum manifest, the  *)
(* per-folder archive state machine, reset, the local delete, restore and  *)
(* the Glacier retrieval controller.                                       *)
(*                                                                         *)
(* A folder is a path, written as the sequence of its components:          *)
(* <<"x", "y">> is /x/y.  A file content is a record [kind, size, data].   *)
(*                                                                         *)
(* Spec        the archive, reset and delete commands on the tree /x, /x/y *)
(* SpecLookup  archive_json_get_row on any registry and any path           *)
(* SpecPack    _gen_allfiles_and_tar, _gen_md5sums and _untar_files on one *)
(*             folder of any content                                       *)
(* SpecBatch   archive of two folders in one command, with pack and        *)
(*             manifest failures and an unparseable registry               *)
(* SpecGlacier repeated restore calls on an archived folder whose objects  *)
(*             are in any storage class, the bucket finishing retrievals   *)
(* SpecCopier  the copier calls of archive_locally under any configured    *)
(*             storage class                                               *)
(* SpecCollision  _is_recursive_collision on any folder list               *)
(* SpecPut     two processes inside _archive_json_add_entry                *)
(* SpecIndex   the hotspot selection of _index_locally on any pwalk output *)
(* SpecDelete  delete of an archived folder the user went on writing into  *)
(* SpecRegistry  archive, reset, delete and restore calls, one at a time   *)
(***************************************************************************)
EXTENDS Naturals, Integers, Sequences, FiniteSets, TLC

VARIABLES
    fs,            \* folder -> (file name -> content): the direct-child files
    archive_json,  \* the registry file: [state, data]
    orig,          \* fs as the user left it, before froster ran
    run,           \* the running (or last finished) archive batch
    last,          \* what the last archive_locally / delete / reset / restore call did
    q,             \* the argument and the result of the last registry lookup
    s3,            \* the bucket: object key -> what head_object answers for it
    cfg,           \* the configuration: [storage_class]
    writers        \* the processes inside _archive_json_add_entry

vars == <<fs, orig, archive_json, run, last, q, s3, cfg, writers>>

(***************************************************************************)
(* Bounds                                                                  *)
(***************************************************************************)
\* longest path of the registry-lookup specification
MaxDepth == 3
\* most entries a registry of the registry-lookup specification holds
MaxKeys == 2
\* most calls in a row of the packer specification
MaxOps == 3
\* most restore requests the bucket accepts for one object
MaxAccepted == 2
\* longest folder list of the collision specification
MaxFolders == 3
\* most directories in the pwalk output of the indexer specification
MaxRows == 2

(***************************************************************************)
(* Program constants                                                       *)
(***************************************************************************)
\* Archiver.__init__: self.thresholdKB = int(x) if x else 1024
thresholdKB == 1024

smallfiles_tar_filename == "Froster.smallfiles.tar"
allfiles_csv_filename == "Froster.allfiles.csv"
md5sum_filename == ".froster.md5sum"
md5sum_restored_filename == ".froster-restored.md5sum"
where_did_the_files_go_filename == "Where-did-the-files-go.txt"

dirmetafiles ==
    { allfiles_csv_filename, smallfiles_tar_filename, md5sum_filename,
      md5sum_restored_filename, where_did_the_files_go_filename }

None == [none |-> TRUE]

(***************************************************************************)
(* Paths                                                                   *)
(***************************************************************************)
IsPrefix(a, b) == Len(a) <= Len(b) /\ SubSeq(b, 1, Len(a)) = a

IsStrictAncestor(a, b) == Len(a) < Len(b) /\ IsPrefix(a, b)

\* pathlib: Path(folder).parents, nearest parent first, the root "/" last
Parents(folder) ==
    [k \in 1..Len(folder) |-> SubSeq(folder, 1, Len(folder) - k)]

(***************************************************************************)
(* Registry lookup                                                         *)
(***************************************************************************)
RECURSIVE ParentLoopFarthest(_, _, _)
\* the parent loop walking from the root down instead of from the folder up
ParentLoopFarthest(data, parents, i) ==
    IF i > Len(parents) THEN None
    ELSE IF parents[Len(parents) + 1 - i] \in DOMAIN data
            /\ data[parents[Len(parents) + 1 - i]].archive_mode = "Recursive"
         THEN data[parents[Len(parents) + 1 - i]]
         ELSE ParentLoopFarthest(data, parents, i + 1)

RECURSIVE ParentLoop(_, _, _)
\* the loop "for parent in path.parents" of archive_json_get_row
ParentLoop(data, parents, i) ==
    IF i > Len(parents) THEN None
    ELSE IF parents[i] \in DOMAIN data
            /\ data[parents[i]].archive_mode = "Recursive"
         THEN data[parents[i]]
         ELSE ParentLoop(data, parents, i + 1)

archive_json_get_row(file, folder) ==
    IF file.state = "absent" THEN None
    ELSE IF file.state = "corrupt" THEN None
    ELSE IF folder \in DOMAIN file.data THEN file.data[folder]
    ELSE ParentLoop(file.data, Parents(folder), 1)

\* looking for the folder's own key only
_is_folder_archived_own_key(file, folder) ==
    file.state = "ok" /\ folder \in DOMAIN file.data

_is_folder_archived(file, folder) == archive_json_get_row(file, folder) # None

(***************************************************************************)
(* Files                                                                   *)
(***************************************************************************)
\* f with the keys of g added or replaced (a write of g's files into f)
Overlay(f, g) ==
    [n \in DOMAIN f \cup DOMAIN g |-> IF n \in DOMAIN g THEN g[n] ELSE f[n]]

\* f without the keys in names (os.remove of each)
Without(f, names) == [n \in DOMAIN f \ names |-> f[n]]

EmptyDir == [n \in {} |-> None]

DataFile(size, data) == [kind |-> "data", size |-> size, data |-> data]

\* os.lstat(file_path).st_size; the text files froster writes are small
MetaFile(kind, data) == [kind |-> kind, size |-> 512, data |-> data]

\* Archiver.md5sum: the digest of the bytes of a file
md5sum(content) == [hexdigest |-> content]

(***************************************************************************)
(* Small-file packer                                                       *)
(***************************************************************************)
\* the files the loop of _gen_allfiles_and_tar looks at
PackCandidates(d) == DOMAIN d \ {allfiles_csv_filename}

\* a size test that also packs a file of exactly smallsize*1024 bytes
IsPackedUpTo(d, file, smallsize, is_tar) ==
    is_tar /\ d[file].size <= smallsize * 1024

\* "if is_tar and size < smallsize*1024"
IsPacked(d, file, smallsize, is_tar) ==
    is_tar /\ d[file].size < smallsize * 1024

PackedFiles(d, smallsize, is_tar) ==
    {file \in PackCandidates(d) : IsPacked(d, file, smallsize, is_tar)}

\* the rows csv.writer writes: File, Size(bytes), Tarred
CsvRows(d, smallsize, is_tar) ==
    [file \in PackCandidates(d) |->
        [size |-> d[file].size,
         tarred |-> IF IsPacked(d, file, smallsize, is_tar) THEN "Yes" ELSE "No"]]

\* the folder after _gen_allfiles_and_tar returned True
_gen_allfiles_and_tar(d, smallsize, is_tar) ==
    IF smallfiles_tar_filename \in DOMAIN d THEN d
    ELSE LET packed == PackedFiles(d, smallsize, is_tar)
             csv == [n \in {allfiles_csv_filename} |->
                        MetaFile("csv", CsvRows(d, smallsize, is_tar))]
             tar == [n \in {smallfiles_tar_filename} |->
                        MetaFile("tar", [file \in packed |-> d[file]])]
             kept == Without(d, packed)
         IN  IF packed = {} THEN Overlay(kept, csv)
             ELSE Overlay(Overlay(kept, csv), tar)

\* an extraction that writes nothing
ExtractNothing(d) == d

\* tar.extractall(path=root)
Extract(d) ==
    IF smallfiles_tar_filename \in DOMAIN d
    THEN Overlay(d, d[smallfiles_tar_filename].data)
    ELSE d

\* an unpack that leaves the tar behind
_untar_files_keep_tar(d) == Extract(d)

\* the folder after _untar_files returned True
_untar_files(d) == Without(Extract(d), {smallfiles_tar_filename})

(***************************************************************************)
(* Checksum manifest                                                       *)
(***************************************************************************)
\* the hashing pool skipping all five reserved names
HashedFilesNoMeta(d, hash_file) == DOMAIN d \ ({hash_file} \cup dirmetafiles)

\* the files _gen_md5sums submits to the hashing pool
HashedFiles(d, hash_file) ==
    DOMAIN d \ { hash_file, where_did_the_files_go_filename,
                 md5sum_filename, md5sum_restored_filename }

_gen_md5sums_ok(d, hash_file) == HashedFiles(d, hash_file) # {}

\* the folder after _gen_md5sums: the manifest written, or removed when empty
_gen_md5sums(d, hash_file) ==
    IF HashedFiles(d, hash_file) = {} THEN Without(d, {hash_file})
    ELSE Overlay(d, [n \in {hash_file} |->
            MetaFile("md5", [file \in HashedFiles(d, hash_file) |-> md5sum(d[file])])])

(***************************************************************************)
(* Reset                                                                   *)
(***************************************************************************)
\* reset_folder forgetting to expand the tar before it removes it
reset_one_no_untar(file, root, d) ==
    IF _is_folder_archived(file, root) THEN d
    ELSE Without(d, dirmetafiles)

\* one iteration of the loop of reset_folder, on folder root holding d
reset_one(file, root, d) ==
    IF _is_folder_archived(file, root) THEN d
    ELSE Without(Extract(d), dirmetafiles)


(***************************************************************************)
(* The folders of the modelled file system                                 *)
(***************************************************************************)
\* /x and its sub-directory /x/y
Dirs == { <<"x">>, <<"x", "y">> }

Subdirs(d) == {e \in Dirs : Len(e) = Len(d) + 1 /\ IsPrefix(d, e)}

RECURSIVE _walker(_), WalkEach(_)
\* os.walk(top, topdown=True): top, then the walk of each sub-directory
_walker(top) == <<top>> \o WalkEach(Subdirs(top))

WalkEach(kids) ==
    IF kids = {} THEN <<>>
    ELSE LET k == CHOOSE c \in kids : TRUE
         IN  _walker(k) \o WalkEach(kids \ {k})

\* what a user may have put in a folder before froster touched it
\* (scenario 1: a.bin of 2 MiB and small.txt of 100 bytes)
UserFiles ==
    [n \in {"a.bin", "small.txt"} |->
        IF n = "a.bin" THEN DataFile(2 * 1024 * 1024, "A") ELSE DataFile(100, "S")]

UserDirs == { [n \in names |-> UserFiles[n]] : names \in SUBSET DOMAIN UserFiles }

(***************************************************************************)
(* Registry write                                                          *)
(***************************************************************************)
bucket_name == ":s3:bucket"
archive_dir == "archive"

\* s3_dest = os.path.join(f':s3:{bucket_name}', archive_dir, folder.lstrip('/'))
S3Dest(folder) == <<bucket_name, archive_dir>> \o folder

new_entry(folder, is_recursive) ==
    [ local_folder |-> folder,
      archive_folder |-> S3Dest(folder),
      s3_storage_class |-> "DEEP_ARCHIVE",
      archive_mode |-> IF is_recursive THEN "Recursive" ELSE "Single" ]

\* a registry write that starts from an empty dictionary when json.load fails
_archive_json_add_entry_clobber(file, key, value) ==
    LET data == IF file.state = "ok" THEN file.data ELSE [k \in {} |-> None]
    IN  [state |-> "ok", data |-> Overlay(data, [k \in {key} |-> value])]

\* the registry file after _archive_json_add_entry(key, value)
_archive_json_add_entry(file, key, value) ==
    IF file.state = "corrupt" THEN file
    ELSE LET data == IF file.state = "absent" THEN [k \in {} |-> None] ELSE file.data
         IN  [state |-> "ok", data |-> Overlay(data, [k \in {key} |-> value])]


(***************************************************************************)
(* Archive orchestrator                                                    *)
(***************************************************************************)
Pipeline == <<"pack", "manifest", "upload", "csv_upload", "verify">>

\* what the copier and the verifier may answer in one archive_locally call:
\* every call succeeds, or the named call is the first to report failure
ExtAnswers == {"ok", "upload", "csv_upload", "verify"}

\* a pipeline whose failed steps do not return
StepsRunAll(oks, i) == Len(oks)

RECURSIVE StepsRun(_, _)
\* the steps of the pipeline that run: each "if not ok: return" ends it
StepsRun(oks, i) ==
    IF i > Len(oks) THEN Len(oks)
    ELSE IF oks[i] THEN StepsRun(oks, i + 1)
    ELSE i

\* an os.scandir that always finds an entry
IsEmptyFolderNever(folder, d) == FALSE

\* "if not any(True for _ in entries)" over os.scandir(folder)
IsEmptyFolder(folder, d) == DOMAIN d = {} /\ Subdirs(folder) = {}

\* what the file system may answer to the pack and manifest steps of one
\* archive_locally call: an error before the step wrote anything, or an
\* error right after it created its output files
IoAnswers ==
    {"pack_unwritten", "pack_partial", "manifest_unwritten", "manifest_partial"}

\* every answer one archive_locally call may get
StepAnswers == ExtAnswers \cup IoAnswers

\* the folder after _gen_allfiles_and_tar raised: before tarfile.open (ans
\* pack_unwritten), or on the first file of its loop, the tar and the CSV
\* created and still empty (they are not removed on that path)
PackRaised(d, ans) ==
    IF ans = "pack_unwritten" THEN d
    ELSE Overlay(d, [n \in {smallfiles_tar_filename, allfiles_csv_filename} |->
                IF n = smallfiles_tar_filename
                THEN MetaFile("tar", EmptyDir) ELSE MetaFile("csv", EmptyDir)])

\* the folder after _gen_md5sums raised: before open(hashpath) (ans
\* manifest_unwritten), or on the first digest, the manifest created and
\* still empty (it is not removed on that path)
ManifestRaised(d, ans) ==
    IF ans = "manifest_unwritten" THEN d
    ELSE Overlay(d, [n \in {md5sum_filename} |-> MetaFile("md5", EmptyDir)])

\* archive_locally gets past its checks on folder holding d: not archived,
\* no manifest unless forced, not empty
PipelineStarts(folder, d, file, is_force) ==
    /\ ~_is_folder_archived(file, folder)
    /\ md5sum_filename \in DOMAIN d => is_force
    /\ ~IsEmptyFolder(folder,
            IF md5sum_filename \in DOMAIN d THEN reset_one(file, folder, d) ELSE d)

\* archive_locally up to the creation of the Rclone object: the checks, the
\* forced reset, the packing and the manifest, on folder holding d; ans is
\* the answer the call gets
archive_prepare(folder, d, file, is_tar, is_force, ans) ==
    LET froster_md5sum_exists == md5sum_filename \in DOMAIN d
        folder_already_archived == _is_folder_archived(file, folder)
        d0 == IF froster_md5sum_exists /\ is_force THEN reset_one(file, folder, d) ELSE d
        pack_raises == /\ ans \in {"pack_unwritten", "pack_partial"}
                       /\ smallfiles_tar_filename \notin DOMAIN d0
        d1 == _gen_allfiles_and_tar(d0, thresholdKB, is_tar)
        manifest_raises ==
            \/ ans = "manifest_unwritten"
            \/ ans = "manifest_partial" /\ HashedFiles(d1, md5sum_filename) # {}
        is_checksum_generated == _gen_md5sums_ok(d1, md5sum_filename)
    IN  IF folder_already_archived
          THEN [dir |-> d, oks |-> <<>>, result |-> "exit", code |-> 0]
        ELSE IF froster_md5sum_exists /\ ~is_force
          THEN [dir |-> d, oks |-> <<>>, result |-> "exit", code |-> 1]
        ELSE IF IsEmptyFolder(folder, d0)
          THEN [dir |-> d0, oks |-> <<>>, result |-> "skipped", code |-> 0]
        ELSE IF pack_raises
          THEN [dir |-> PackRaised(d0, ans), oks |-> <<FALSE>>,
                result |-> "failed", code |-> 0]
        ELSE IF manifest_raises
          THEN [dir |-> ManifestRaised(d1, ans), oks |-> <<TRUE, FALSE>>,
                result |-> "failed", code |-> 0]
        ELSE [dir |-> _gen_md5sums(d1, md5sum_filename),
              oks |-> <<TRUE, is_checksum_generated>>,
              result |-> IF is_checksum_generated THEN "ready" ELSE "failed",
              code |-> 0]

\* one call of archive_locally: p is what archive_prepare left, ext the
\* answers of the copier and the verifier
archive_locally(p, folder, file, is_recursive, is_subfolder, ext) ==
    LET oks == p.oks \o << ext # "upload", ext # "csv_upload", ext # "verify" >>
        n == StepsRun(oks, 1)
        log == [i \in 1..n |-> [step |-> Pipeline[i], ok |-> oks[i]]]
    IN  IF p.result # "ready"
          THEN [dir |-> p.dir, file |-> file, result |-> p.result, code |-> p.code,
                log |-> [i \in 1..Len(p.oks) |->
                            [step |-> Pipeline[i], ok |-> p.oks[i]]]]
        ELSE IF ~oks[n]
          THEN [dir |-> p.dir, file |-> file, result |-> "failed", code |-> 0,
                log |-> log]
        ELSE [dir |-> p.dir,
              file |-> IF is_subfolder THEN file
                       ELSE _archive_json_add_entry(file, folder,
                                                    new_entry(folder, is_recursive)),
              result |-> "completed", code |-> 0, log |-> log]

(***************************************************************************)
(* Delete orchestrator                                                     *)
(***************************************************************************)
RECURSIVE ReplaceAll(_, _)
\* str.replace(old, ''), on paths whose components are not prefixes of one
\* another: every occurrence of old, left to right, is dropped
ReplaceAll(path, old) ==
    IF Len(path) < Len(old) \/ Len(old) = 0 THEN path
    ELSE IF SubSeq(path, 1, Len(old)) = old
         THEN ReplaceAll(SubSeq(path, Len(old) + 1, Len(path)), old)
         ELSE <<Head(path)>> \o ReplaceAll(Tail(path), old)

\* the remote folder delete_locally verifies against: archive_folder +
\* subfolder_path
delete_s3_dest(archived_folder_info, folder_to_delete) ==
    archived_folder_info.archive_folder
        \o ReplaceAll(folder_to_delete, archived_folder_info.local_folder)

\* tail of restore: '' for the folder of the entry, else folder.replace(
\* rowdict['local_folder'], '')
restore_tail(rowdict, folder) ==
    IF folder # rowdict.local_folder
    THEN ReplaceAll(folder, rowdict.local_folder) ELSE <<>>

\* source of restore: archive_folder + tail + '/'; the trailing separator is
\* an empty last component
restore_source(rowdict, folder) ==
    rowdict.archive_folder \o restore_tail(rowdict, folder) \o <<"">>

\* a delete loop that spares all five reserved names
DeletedFilesNoMeta(d) == DOMAIN d \ dirmetafiles

\* the files the loop "for file in files" of delete_locally removes
DeletedFiles(d) ==
    DOMAIN d \ { md5sum_filename, md5sum_restored_filename,
                 allfiles_csv_filename, where_did_the_files_go_filename }

\* a delete that does not look at the answer of the verifier
delete_locally_unverified(folder_to_delete, d, file, checksum_ok) ==
    LET archived_folder_info == archive_json_get_row(file, folder_to_delete)
    IN  IF archived_folder_info = None
          THEN [dir |-> d, result |-> "not_archived"]
        ELSE IF md5sum_filename \notin DOMAIN d
                /\ md5sum_restored_filename \notin DOMAIN d
          THEN [dir |-> d, result |-> "no_hashfile"]
        ELSE [dir |-> Overlay(Without(d, DeletedFiles(d)),
                              [n \in {where_did_the_files_go_filename} |->
                                 MetaFile("readme",
                                    [dest |-> archived_folder_info.archive_folder,
                                     deleted |-> DeletedFiles(d)])]),
              result |-> "deleted"]

\* one call of delete_locally on folder_to_delete, the folder holding d;
\* checksum_ok is the answer of rclone.checksum
delete_locally(folder_to_delete, d, file, checksum_ok) ==
    LET archived_folder_info == archive_json_get_row(file, folder_to_delete)
        has_hashfile == md5sum_filename \in DOMAIN d
                        \/ md5sum_restored_filename \in DOMAIN d
        s3_dest == delete_s3_dest(archived_folder_info, folder_to_delete)
        readme == [n \in {where_did_the_files_go_filename} |->
                      MetaFile("readme", [dest |-> s3_dest,
                                          deleted |-> DeletedFiles(d)])]
    IN  IF archived_folder_info = None
          THEN [dir |-> d, result |-> "not_archived"]
        ELSE IF ~has_hashfile
          THEN [dir |-> d, result |-> "no_hashfile"]
        ELSE IF ~checksum_ok
          THEN [dir |-> d, result |-> "checksum_failed"]
        ELSE [dir |-> Overlay(Without(d, DeletedFiles(d)), readme),
              result |-> "deleted"]

(***************************************************************************)
(* State machine                                                           *)
(***************************************************************************)
NoFile == [state |-> "absent", data |-> [k \in {} |-> None]]

NoRun ==
    [ status |-> "idle", folders |-> <<>>, queue |-> <<>>,
      is_recursive |-> FALSE, is_tar |-> FALSE, is_force |-> FALSE,
      code |-> 0, completed |-> {}, ext_ok |-> TRUE, fresh |-> FALSE,
      failed |-> FALSE ]

\* op, folder: the call; flag: the recursive flag of a reset; answer: what
\* the verifier (delete) or the copier and verifier (archive) answered; log:
\* the pipeline steps that ran; result: how the call ended; from_orig: the
\* folder was as the user left it when archive_locally started.
\* run.fresh: the batch started on the tree as the user left it, with no registry;
\* run.queue: the folders not yet handed to archive_locally; run.failed: a
\* call of the batch rejected its folder or failed a step; run.code: the exit
\* status of the process.
\* In SpecPack log is the list of the calls made so far and flag the is_tar
\* argument of a pack, or whether a manifest call wrote .froster.md5sum
NoLast ==
    [ op |-> "none", folder |-> <<>>, flag |-> FALSE, log |-> <<>>,
      result |-> "none", answer |-> TRUE, from_orig |-> TRUE ]

NoQuery == [folder |-> <<>>, row |-> None, source |-> <<>>, s3_dest |-> <<>>]

\* ConfigManager after froster config: storage_class as new_entry records it
DefaultCfg == [storage_class |-> "DEEP_ARCHIVE"]

\* no process is inside _archive_json_add_entry
NoWriters == <<>>

\* a bucket the specification does not look at
NoObjects == [k \in {} |-> None]

Init ==
    /\ fs \in [Dirs -> UserDirs]
    /\ archive_json = NoFile
    /\ orig = fs
    /\ run = NoRun
    /\ last = NoLast
    /\ q = NoQuery
    /\ s3 = NoObjects
    /\ cfg = DefaultCfg
    /\ writers = NoWriters

RECURSIVE Worklist(_, _)
\* the (root, is_subfolder) pairs the loops of archive() hand to
\* archive_locally, in order
Worklist(folders, is_recursive) ==
    IF folders = <<>> THEN <<>>
    ELSE LET folder == Head(folders)
             roots == IF is_recursive THEN _walker(folder) ELSE <<folder>>
         IN  [i \in 1..Len(roots) |->
                 [root |-> roots[i], is_subfolder |-> roots[i] # folder]]
             \o Worklist(Tail(folders), is_recursive)

\* the folder lists of the archive commands: one folder each
Batches == { <<d>> : d \in Dirs }

\* the call of archive_locally on the head of the work list of batch b, and
\* what is left of the batch after it; sys.exit ends the process, and so does
\* the end of the loops of archive()
ArchiveNext(b, answers) ==
    \E item \in {Head(b.queue)} :
    \E ans \in IF PipelineStarts(item.root, fs[item.root], archive_json, b.is_force)
                THEN answers ELSE {"ok"} :
    \E p \in {archive_prepare(item.root, fs[item.root], archive_json,
                               b.is_tar, b.is_force, ans)} :
    \E r \in {archive_locally(p, item.root, archive_json, b.is_recursive,
                               item.is_subfolder, ans)} :
    LET rest == Tail(b.queue)
        ends == r.result = "exit" \/ rest = <<>>
        ext_failed == r.result = "failed" /\ Len(r.log) >= 3
    IN  /\ fs' = [fs EXCEPT ![item.root] = r.dir]
        /\ archive_json' = r.file
        /\ run' = [b EXCEPT
                     !.status = IF ends THEN "ended" ELSE "running",
                     !.queue = rest,
                     !.is_tar = IF ends THEN FALSE ELSE @,
                     !.is_force = IF ends THEN FALSE ELSE @,
                     !.code = r.code,
                     !.completed = IF r.result = "completed"
                                   THEN @ \cup {item.root} ELSE @,
                     !.ext_ok = @ /\ ~ext_failed,
                     !.failed = @ \/ r.result \in {"exit", "failed"}]
        /\ last' = [ op |-> "archive_locally", folder |-> item.root,
                     flag |-> FALSE, log |-> r.log, result |-> r.result,
                     answer |-> ~ext_failed,
                     from_orig |-> fs[item.root] = orig[item.root] ]
        /\ UNCHANGED <<orig, q, s3, cfg, writers>>

\* froster archive [--recursive] [--notar] [--force] folders...: archive(),
\* up to the return of its first call of archive_locally
StartArchive(folders, is_recursive, is_tar, is_force) ==
    /\ run.status # "running"
    /\ ArchiveNext([ status |-> "running", folders |-> folders,
                     queue |-> Worklist(folders, is_recursive),
                     is_recursive |-> is_recursive, is_tar |-> is_tar,
                     is_force |-> is_force, code |-> 0, completed |-> {},
                     ext_ok |-> TRUE,
                     fresh |-> fs = orig /\ archive_json = NoFile,
                     failed |-> FALSE ], ExtAnswers)

\* archive(), from one call of archive_locally to the return of the next
ArchiveStep ==
    /\ run.status = "running"
    /\ ArchiveNext(run, ExtAnswers)

\* froster archive --reset [--recursive] folder: reset_folder
Reset(directory, recursive) ==
    /\ run.status # "running"
    /\ LET roots == IF recursive THEN _walker(directory) ELSE <<directory>>
           touched == {roots[i] : i \in 1..Len(roots)}
       IN  fs' = [d \in Dirs |-> IF d \in touched
                                 THEN reset_one(archive_json, d, fs[d])
                                 ELSE fs[d]]
    /\ last' = [ op |-> "reset", folder |-> directory, flag |-> recursive,
                 log |-> <<>>,
                 result |-> IF _is_folder_archived(archive_json, directory)
                            THEN "nothing_to_reset"
                            ELSE IF smallfiles_tar_filename \in DOMAIN fs[directory]
                            THEN "untarred" ELSE "cleaned",
                 answer |-> TRUE, from_orig |-> TRUE ]
    /\ run' = NoRun
    /\ UNCHANGED <<orig, archive_json, q, s3, cfg, writers>>

\* froster delete folder: delete_locally
Delete(folder_to_delete, checksum_ok) ==
    /\ run.status # "running"
    /\ LET r == delete_locally(folder_to_delete, fs[folder_to_delete],
                               archive_json, checksum_ok)
       IN  /\ fs' = [fs EXCEPT ![folder_to_delete] = r.dir]
           /\ last' = [ op |-> "delete", folder |-> folder_to_delete,
                        flag |-> FALSE, log |-> <<>>, result |-> r.result,
                        answer |-> checksum_ok, from_orig |-> TRUE ]
    /\ run' = NoRun
    /\ UNCHANGED <<orig, archive_json, q, s3, cfg, writers>>

Next ==
    \/ \E folders \in Batches, is_recursive, is_tar, is_force \in BOOLEAN :
          StartArchive(folders, is_recursive, is_tar, is_force)
    \/ ArchiveStep
    \/ \E directory \in Dirs, recursive \in BOOLEAN : Reset(directory, recursive)
    \/ \E folder_to_delete \in Dirs, checksum_ok \in BOOLEAN :
          Delete(folder_to_delete, checksum_ok)

Spec == Init /\ [][Next]_vars



(***************************************************************************)
(* Properties of the archive, reset and delete commands (Spec)             *)
(***************************************************************************)
\* the folders under root (root included) that archive_locally does not skip
\* as empty, on the tree as the user left it
NonEmptyUnder(root) ==
    {d \in Dirs : IsPrefix(root, d) /\ ~IsEmptyFolder(d, orig[d])}

\* C1: when a recursive batch on root R, started on an untouched tree with
\* every copier and verifier call succeeding, has ended, every non-empty
\* directory under R went through the whole pipeline and the registry holds
\* exactly one entry, keyed R, with archive_mode Recursive
C1_RecursiveBatchArchivesAll ==
    \A R \in Dirs :
        ( /\ run.status = "ended" /\ run.is_recursive /\ run.folders = <<R>>
          /\ run.fresh /\ run.ext_ok
          /\ R \in NonEmptyUnder(R) )
        => /\ NonEmptyUnder(R) \subseteq run.completed
           /\ archive_json.state = "ok"
           /\ DOMAIN archive_json.data = {R}
           /\ archive_json.data[R].archive_mode = "Recursive"

\* C4: a delete whose registry lookup finds nothing, or that finds neither
\* manifest in the folder, or whose remote verification fails, leaves every
\* file where it was and writes no placeholder
C4_DeleteGuardrail ==
    [][ ( /\ last'.op = "delete"
          /\ \/ archive_json_get_row(archive_json, last'.folder) = None
             \/ /\ md5sum_filename \notin DOMAIN fs[last'.folder]
                /\ md5sum_restored_filename \notin DOMAIN fs[last'.folder]
             \/ ~last'.answer )
        => fs' = fs ]_vars

\* a delete refused by the verifier on a registered folder that holds its
\* manifest and a data file
C4_Witness ==
    /\ last.op = "delete"
    /\ last.result = "checksum_failed"
    /\ ~last.answer
    /\ archive_json_get_row(archive_json, last.folder) # None
    /\ md5sum_filename \in DOMAIN fs[last.folder]
    /\ "a.bin" \in DOMAIN fs[last.folder]
    /\ where_did_the_files_go_filename \notin DOMAIN fs[last.folder]

\* the steps an archive_locally call ran are the first steps of the pipeline,
\* in its order, and every step but the last one run returned success
LogInOrder(log) ==
    /\ Len(log) <= Len(Pipeline)
    /\ \A i \in 1..Len(log) :
          /\ log[i].step = Pipeline[i]
          /\ i < Len(log) => log[i].ok

\* C5: the steps run in the order pack, manifest, upload, CSV upload, verify,
\* each only after the one before succeeded, and the registry changes only in
\* an archive_locally call all of whose five steps succeeded, by the entry of
\* the folder of that call
C5_RegisterAfterVerify ==
    [][ /\ last'.op = "archive_locally" => LogInOrder(last'.log)
        /\ archive_json' # archive_json =>
              /\ last'.op = "archive_locally"
              /\ Len(last'.log) = Len(Pipeline)
              /\ \A i \in 1..Len(last'.log) : last'.log[i].ok
              /\ last'.answer
              /\ DOMAIN archive_json'.data = DOMAIN archive_json.data \cup {last'.folder}
              /\ \A k \in DOMAIN archive_json.data \ {last'.folder} :
                    archive_json'.data[k] = archive_json.data[k] ]_vars

\* an archive_locally call that ran the five steps and registered its folder
C5_Witness ==
    /\ last.op = "archive_locally"
    /\ last.result = "completed"
    /\ Len(last.log) = Len(Pipeline)
    /\ last.folder \in DOMAIN archive_json.data
    /\ md5sum_filename \in DOMAIN fs[last.folder]

\* the names a delete never removes
DeleteSpared ==
    { allfiles_csv_filename, md5sum_filename, md5sum_restored_filename,
      where_did_the_files_go_filename }

\* C7 as claimed: a successful delete removes every file that is not one of
\* the five meta files, keeps each of the CSV, the tar and the two manifests
\* that existed, and leaves the placeholder
C7_DeleteKeepsFiveMeta ==
    [][ (last'.op = "delete" /\ last'.result = "deleted") =>
          LET before == fs[last'.folder]
              after == fs'[last'.folder]
          IN  /\ \A n \in DOMAIN before \ dirmetafiles : n \notin DOMAIN after
              /\ \A n \in DOMAIN before \cap
                            (dirmetafiles \ {where_did_the_files_go_filename}) :
                    n \in DOMAIN after
              /\ where_did_the_files_go_filename \in DOMAIN after ]_vars

\* C7 amended: a successful delete removes every file but the CSV, the two
\* manifests and the placeholder (the tar is removed), keeps each of the CSV
\* and the two manifests that existed as it was, and leaves the placeholder
C7_DeleteKeepsFourMeta ==
    [][ (last'.op = "delete" /\ last'.result = "deleted") =>
          LET before == fs[last'.folder]
              after == fs'[last'.folder]
          IN  /\ \A n \in DOMAIN before \ DeleteSpared : n \notin DOMAIN after
              /\ \A n \in DOMAIN before \cap
                            (DeleteSpared \ {where_did_the_files_go_filename}) :
                    n \in DOMAIN after /\ after[n] = before[n]
              /\ where_did_the_files_go_filename \in DOMAIN after
              /\ \A d \in Dirs \ {last'.folder} : fs'[d] = fs[d] ]_vars

\* a successful delete that removed a data file and the tar, and kept the
\* manifest and the CSV
C7_Witness ==
    /\ last.op = "delete"
    /\ last.result = "deleted"
    /\ where_did_the_files_go_filename \in DOMAIN fs[last.folder]
    /\ {"a.bin", smallfiles_tar_filename}
          \subseteq fs[last.folder][where_did_the_files_go_filename].data.deleted
    /\ {md5sum_filename, allfiles_csv_filename} \subseteq DOMAIN fs[last.folder]
    /\ smallfiles_tar_filename \notin DOMAIN fs[last.folder]

\* the folders a reset call visits
ResetRoots(directory, recursive) ==
    LET roots == IF recursive THEN _walker(directory) ELSE <<directory>>
    IN  {roots[i] : i \in 1..Len(roots)}

\* folder d was left without meta files and with every member of its tar back
ResetToPristine(before, after) ==
    /\ DOMAIN after \cap dirmetafiles = {}
    /\ smallfiles_tar_filename \in DOMAIN before =>
          \A n \in DOMAIN before[smallfiles_tar_filename].data :
              /\ n \in DOMAIN after
              /\ after[n] = before[smallfiles_tar_filename].data[n]

C9_FailedArchiveThenReset ==
    [][ /\ ( /\ last.op = "archive_locally" /\ last.result = "failed"
             /\ Len(last.log) >= 3 /\ last.from_orig
             /\ last'.op = "reset" /\ last'.folder = last.folder )
           => fs'[last.folder] = orig[last.folder]
        /\ ( /\ last.op = "reset" /\ last'.op = "reset"
             /\ last'.folder = last.folder /\ last'.flag = last.flag )
           => fs' = fs ]_vars

\* a reset that expanded the tar of a failed archive: the folder is as the
\* user left it, small file included
C9_Witness ==
    /\ last.op = "reset"
    /\ last.result = "untarred"
    /\ archive_json = NoFile
    /\ "small.txt" \in DOMAIN orig[last.folder]
    /\ fs[last.folder] = orig[last.folder]

\* C12: an archive_locally call on an empty folder runs no step, creates no
\* file and leaves the registry as it was; unless a registry entry covers
\* the folder, the call ends as skipped
C12_EmptyFolderSkipped ==
    [][ ( /\ last'.op = "archive_locally"
          /\ fs[last'.folder] = EmptyDir
          /\ Subdirs(last'.folder) = {} )
        => /\ last'.log = <<>>
           /\ fs' = fs
           /\ archive_json' = archive_json
           /\ last'.result \in {"skipped", "exit"}
           /\ ~_is_folder_archived(archive_json, last'.folder)
                 => last'.result = "skipped" /\ run'.code = 0 ]_vars

\* a skipped archive of an empty folder no registry entry covers
C12_Witness ==
    /\ last.op = "archive_locally"
    /\ last.result = "skipped"
    /\ last.log = <<>>
    /\ fs[last.folder] = EmptyDir
    /\ ~_is_folder_archived(archive_json, last.folder)

(***************************************************************************)
(* Registry lookup on its own: any registry, any path                      *)
(***************************************************************************)
PathNames == {"x", "y"}

\* /x, /x/x, ... and the sibling /y, /x/y, ... of each
LookupPaths ==
    { Append([i \in 1..n |-> "x"], c) : n \in 0..(MaxDepth - 1), c \in PathNames }

RECURSIVE KeySets(_)
\* the sets of at most n paths
KeySets(n) ==
    IF n = 0 THEN {{}}
    ELSE LET smaller == KeySets(n - 1)
         IN  smaller \cup {ks \cup {p} : ks \in smaller, p \in LookupPaths}

\* the registries archive can have written: each key maps to the entry
\* archive_locally builds for it, Single or Recursive
Registries ==
    UNION { { [state |-> "ok",
               data |-> [k \in keys |-> new_entry(k, is_recursive[k])]] :
                 is_recursive \in [keys -> BOOLEAN] } :
            keys \in KeySets(MaxKeys) \ {{}} }

InitLookup ==
    /\ archive_json \in Registries
    /\ fs = [d \in Dirs |-> EmptyDir]
    /\ orig = fs
    /\ run = NoRun
    /\ last = NoLast
    /\ q = NoQuery
    /\ s3 = NoObjects
    /\ cfg = DefaultCfg
    /\ writers = NoWriters

\* a call of archive_json_get_row(folder), and the remote locations that
\* restore(folder) and delete_locally(folder) compute from the entry it
\* returns; <<>> where the call returns before it computes one
Lookup(folder) ==
    /\ \E rowdict \in {archive_json_get_row(archive_json, folder)} :
          q' = [ folder |-> folder, row |-> rowdict,
                 source |-> IF rowdict = None THEN <<>>
                            ELSE IF folder # rowdict.local_folder
                                    /\ rowdict.archive_mode # "Recursive"
                              THEN <<>>
                            ELSE restore_source(rowdict, folder),
                 s3_dest |-> IF rowdict = None THEN <<>>
                             ELSE delete_s3_dest(rowdict, folder) ]
    /\ UNCHANGED <<fs, orig, archive_json, run, last, s3, cfg, writers>>

NextLookup == \E folder \in LookupPaths : Lookup(folder)

SpecLookup == InitLookup /\ [][NextLookup]_vars

\* the registry keys that are strict ancestors of folder and Recursive
RecursiveAncestors(data, folder) ==
    {a \in DOMAIN data :
        IsStrictAncestor(a, folder) /\ data[a].archive_mode = "Recursive"}

\* the keys lying strictly between ancestor a and folder that have the mode
Between(data, a, folder, mode) ==
    {b \in DOMAIN data :
        /\ IsStrictAncestor(a, b) /\ IsStrictAncestor(b, folder)
        /\ data[b].archive_mode = mode}

Looked == q.folder # <<>>

\* C2: get(P) is P's own entry when P is a key, otherwise the entry of the
\* deepest strict ancestor of P that is Recursive, otherwise null
C2_GetNearestRecursive ==
    Looked =>
        LET data == archive_json.data
            anc == RecursiveAncestors(data, q.folder)
        IN  IF q.folder \in DOMAIN data THEN q.row = data[q.folder]
            ELSE IF anc = {} THEN q.row = None
            ELSE \E a \in anc :
                    /\ \A b \in anc : Len(b) <= Len(a)
                    /\ q.row = data[a]

\* a lookup answered by a Recursive ancestor although a Single entry lies
\* between that ancestor and the path
C2_Witness ==
    /\ Looked
    /\ q.folder \notin DOMAIN archive_json.data
    /\ q.row # None
    /\ Between(archive_json.data, q.row.local_folder, q.folder, "Single") # {}

\* C3 as claimed: a Recursive ancestor A answers the lookup of P iff P has no
\* direct entry and no entry between A and P is Single
C3_SingleBlocks ==
    Looked =>
        \A a \in RecursiveAncestors(archive_json.data, q.folder) :
            (q.row = archive_json.data[a])
            <=> ( /\ q.folder \notin DOMAIN archive_json.data
                  /\ Between(archive_json.data, a, q.folder, "Single") = {} )

\* C3 amended: a Recursive ancestor A answers the lookup of P iff P has no
\* direct entry and no entry between A and P is Recursive
C3_RecursiveBlocks ==
    Looked =>
        \A a \in RecursiveAncestors(archive_json.data, q.folder) :
            (q.row = archive_json.data[a])
            <=> ( /\ q.folder \notin DOMAIN archive_json.data
                  /\ Between(archive_json.data, a, q.folder, "Recursive") = {} )

\* a lookup that a nearer Recursive entry takes away from a Recursive ancestor
C3_Witness ==
    /\ Looked
    /\ q.folder \notin DOMAIN archive_json.data
    /\ \E a \in RecursiveAncestors(archive_json.data, q.folder) :
          /\ q.row # archive_json.data[a]
          /\ Between(archive_json.data, a, q.folder, "Recursive") # {}


\* the path of folder relative to its ancestor root
RelativeTo(folder, root) == SubSeq(folder, Len(root) + 1, Len(folder))

\* C21: for a folder that a registry entry covers (the folder of the entry,
\* or a descendant of it when the entry is Recursive), restore uses the
\* remote location archive_folder + T + "/" and delete uses archive_folder +
\* T, T being the path of the folder relative to the folder of the entry
C21_RemoteLocation ==
    (Looked /\ q.row # None /\ IsPrefix(q.row.local_folder, q.folder)) =>
        LET T == RelativeTo(q.folder, q.row.local_folder)
        IN  /\ q.source = q.row.archive_folder \o T \o <<"">>
            /\ q.s3_dest = q.row.archive_folder \o T

(***************************************************************************)
(* Packer, manifest and unpacker on their own: one folder, any content     *)
(***************************************************************************)
TheDir == <<"x">>

\* froster files an earlier run, or an earlier version, may have left behind
Leftovers ==
    [n \in { allfiles_csv_filename, smallfiles_tar_filename,
             md5sum_restored_filename, where_did_the_files_go_filename } |->
        IF n = allfiles_csv_filename
          THEN MetaFile("csv", [f \in {"small.txt"} |-> [size |-> 100, tarred |-> "Yes"]])
        ELSE IF n = smallfiles_tar_filename
          THEN MetaFile("tar", [f \in {"small.txt"} |-> DataFile(100, "T")])
        ELSE IF n = md5sum_restored_filename
          THEN MetaFile("md5", [f \in {"a.bin"} |-> md5sum(UserFiles["a.bin"])])
        ELSE MetaFile("readme", [dest |-> S3Dest(TheDir), deleted |-> {"a.bin"}])]

\* the user files of the packer specification: those of UserFiles and one of
\* exactly thresholdKB*1024 bytes
PackFiles ==
    Overlay(UserFiles, [n \in {"edge.bin"} |-> DataFile(thresholdKB * 1024, "E")])

FolderStates ==
    { Overlay([n \in names |-> PackFiles[n]], [n \in left |-> Leftovers[n]]) :
        names \in SUBSET DOMAIN PackFiles, left \in SUBSET DOMAIN Leftovers }

InitPack ==
    /\ fs \in { [d \in Dirs |-> IF d = TheDir THEN c ELSE EmptyDir] :
                  c \in FolderStates }
    /\ orig = fs
    /\ archive_json = NoFile
    /\ run = NoRun
    /\ last = NoLast
    /\ q = NoQuery
    /\ s3 = NoObjects
    /\ cfg = DefaultCfg
    /\ writers = NoWriters

\* the call just made, and the calls made so far
Called(op, flag, label) ==
    last' = [ op |-> op, folder |-> TheDir, flag |-> flag,
              log |-> Append(last.log, label), result |-> "none",
              answer |-> TRUE, from_orig |-> fs = orig ]

\* a call of _gen_allfiles_and_tar(directory, self.thresholdKB, is_tar)
Pack(is_tar) ==
    /\ Len(last.log) < MaxOps
    /\ fs' = [fs EXCEPT ![TheDir] = _gen_allfiles_and_tar(@, thresholdKB, is_tar)]
    /\ Called("pack", is_tar, IF is_tar THEN "pack_tar" ELSE "pack_notar")
    /\ UNCHANGED <<orig, archive_json, run, q, s3, cfg, writers>>

\* a call of _gen_md5sums(directory, hash_file)
Manifest(hash_file) ==
    /\ Len(last.log) < MaxOps
    /\ fs' = [fs EXCEPT ![TheDir] = _gen_md5sums(@, hash_file)]
    /\ Called("manifest", hash_file = md5sum_filename,
              IF hash_file = md5sum_filename THEN "manifest" ELSE "manifest_restored")
    /\ UNCHANGED <<orig, archive_json, run, q, s3, cfg, writers>>

\* a call of _untar_files(directory)
Unpack ==
    /\ Len(last.log) < MaxOps
    /\ fs' = [fs EXCEPT ![TheDir] = _untar_files(@)]
    /\ Called("unpack", FALSE, "unpack")
    /\ UNCHANGED <<orig, archive_json, run, q, s3, cfg, writers>>

NextPack ==
    \/ \E is_tar \in BOOLEAN : Pack(is_tar)
    \/ \E hash_file \in {md5sum_filename, md5sum_restored_filename} :
          Manifest(hash_file)
    \/ Unpack

SpecPack == InitPack /\ [][NextPack]_vars

\* the names _gen_md5sums never hashes
ManifestSkipped ==
    { md5sum_filename, md5sum_restored_filename, where_did_the_files_go_filename }

\* C6 as claimed: when the manifest step succeeds, .froster.md5sum lists the
\* files that were in the folder minus the five meta files
C6_ManifestSkipsFiveMeta ==
    [][ ( /\ last'.op = "manifest" /\ last'.flag
          /\ md5sum_filename \in DOMAIN fs'[TheDir] )
        => DOMAIN fs'[TheDir][md5sum_filename].data
              = DOMAIN fs[TheDir] \ dirmetafiles ]_vars

\* C6 amended: when the manifest step succeeds, .froster.md5sum lists the
\* files that were in the folder minus the two manifests and the placeholder,
\* each with the digest of its content; the CSV and the tar are listed
C6_ManifestSkipsThreeMeta ==
    [][ ( /\ last'.op = "manifest" /\ last'.flag
          /\ md5sum_filename \in DOMAIN fs'[TheDir] )
        => LET sums == fs'[TheDir][md5sum_filename].data
           IN  /\ DOMAIN sums = DOMAIN fs[TheDir] \ ManifestSkipped
               /\ \A n \in DOMAIN sums : sums[n] = md5sum(fs[TheDir][n])
               /\ Without(fs'[TheDir], {md5sum_filename})
                     = Without(fs[TheDir], {md5sum_filename}) ]_vars

\* a manifest written in a folder holding the CSV, the tar, the restored
\* manifest and the placeholder: it lists the first two and not the others
C6_Witness ==
    /\ last.op = "manifest" /\ last.flag
    /\ md5sum_filename \in DOMAIN fs[TheDir]
    /\ {md5sum_restored_filename, where_did_the_files_go_filename}
          \subseteq DOMAIN fs[TheDir]
    /\ {allfiles_csv_filename, smallfiles_tar_filename, "a.bin"}
          \subseteq DOMAIN fs[TheDir][md5sum_filename].data
    /\ DOMAIN fs[TheDir][md5sum_filename].data \cap ManifestSkipped = {}

\* every file of the folder is below the packing threshold
AllSmall(d) == \A n \in DOMAIN d : d[n].size < thresholdKB * 1024

\* the folder went through pack with tarring and then unpack, and nothing else
PackedThenUnpacked == last.log = <<"pack_tar", "unpack">>

\* C10 as claimed: a folder of files below the threshold holds, after pack
\* and unpack, exactly the names and contents it held, and no tar
C10_PackUnpackIdentity ==
    (PackedThenUnpacked /\ AllSmall(orig[TheDir]))
    => /\ fs[TheDir] = orig[TheDir]
       /\ smallfiles_tar_filename \notin DOMAIN fs[TheDir]

\* C10 amended: a folder of files below the threshold, none of them named as
\* the CSV or the tar, holds after pack and unpack the names and contents it
\* held and, besides them, the CSV that pack wrote; it holds no tar
C10_PackUnpackKeepsCsv ==
    ( /\ PackedThenUnpacked /\ AllSmall(orig[TheDir])
      /\ DOMAIN orig[TheDir]
            \cap {allfiles_csv_filename, smallfiles_tar_filename} = {} )
    => /\ Without(fs[TheDir], {allfiles_csv_filename}) = orig[TheDir]
       /\ allfiles_csv_filename \in DOMAIN fs[TheDir]
       /\ DOMAIN fs[TheDir][allfiles_csv_filename].data = DOMAIN orig[TheDir]
       /\ smallfiles_tar_filename \notin DOMAIN fs[TheDir]

\* a small file that went into the tar and came back out of it
C10_Witness ==
    /\ PackedThenUnpacked
    /\ AllSmall(orig[TheDir])
    /\ "small.txt" \in DOMAIN orig[TheDir]
    /\ fs[TheDir]["small.txt"] = orig[TheDir]["small.txt"]
    /\ fs[TheDir][allfiles_csv_filename].data["small.txt"].tarred = "Yes"
    /\ smallfiles_tar_filename \notin DOMAIN fs[TheDir]

\* the members of the tar of folder d, the rows of its CSV, the rows saying Yes
TarMembers(d) ==
    IF smallfiles_tar_filename \in DOMAIN d
    THEN DOMAIN d[smallfiles_tar_filename].data ELSE {}

Catalog(d) ==
    IF allfiles_csv_filename \in DOMAIN d
    THEN d[allfiles_csv_filename].data ELSE EmptyDir

TarredYes(d) == {n \in DOMAIN Catalog(d) : Catalog(d)[n].tarred = "Yes"}

\* after a pack of before with packSmall = is_tar: the tar, the rows saying
\* Yes and the set small agree, the other rows say No and their files are on
\* disk, no file of exactly the threshold was packed, the tar exists iff
\* small is not empty
PackAgrees(before, after, small) ==
    /\ TarMembers(after) = small
    /\ TarredYes(after) = small
    /\ \A n \in DOMAIN Catalog(after) \ small :
          Catalog(after)[n].tarred = "No" /\ n \in DOMAIN after
    /\ \A n \in DOMAIN before :
          before[n].size = thresholdKB * 1024 =>
              n \in DOMAIN after /\ n \notin TarMembers(after)
    /\ smallfiles_tar_filename \in DOMAIN after <=> small # {}

\* C11 as claimed: after a pack the members of the tar, the rows saying Yes
\* and the files below the threshold (none without packSmall) are the same
\* set, every other row says No and its file is on disk, a file of exactly
\* the threshold is not packed, and the tar exists iff the set is not empty
C11_PackSetsCoincide ==
    [][ last'.op = "pack" =>
          PackAgrees(fs[TheDir], fs'[TheDir],
              IF last'.flag
              THEN {n \in DOMAIN fs[TheDir] :
                        fs[TheDir][n].size < thresholdKB * 1024}
              ELSE {}) ]_vars

\* C11 amended: a pack of a folder that holds the tar already changes
\* nothing; a pack of any other folder leaves the three sets equal, the files
\* counted being those below the threshold other than the CSV
C11_PackSetsCoincideUnlessTar ==
    [][ last'.op = "pack" =>
          IF smallfiles_tar_filename \in DOMAIN fs[TheDir]
          THEN fs'[TheDir] = fs[TheDir]
          ELSE PackAgrees(fs[TheDir], fs'[TheDir],
                  IF last'.flag
                  THEN {n \in DOMAIN fs[TheDir] \ {allfiles_csv_filename} :
                            fs[TheDir][n].size < thresholdKB * 1024}
                  ELSE {}) ]_vars

\* a pack that tarred the small file and left the 2 MiB file and the file of
\* exactly the threshold on disk, with rows saying so
C11_Witness ==
    /\ last.op = "pack" /\ last.flag
    /\ TarMembers(fs[TheDir]) = {"small.txt"}
    /\ {"a.bin", "edge.bin"} \subseteq DOMAIN fs[TheDir]
    /\ "small.txt" \notin DOMAIN fs[TheDir]
    /\ {"edge.bin", "small.txt"} \subseteq DOMAIN Catalog(fs[TheDir])
    /\ Catalog(fs[TheDir])["edge.bin"].tarred = "No"
    /\ Catalog(fs[TheDir])["small.txt"].tarred = "Yes"

(***************************************************************************)
(* Archive batches over two folders, with every step able to fail and the  *)
(* registry file absent or unparseable                                     *)
(***************************************************************************)
\* a registry file json.load cannot parse
CorruptFile == [state |-> "corrupt", text |-> "{"]

\* froster archive f1 f2, on two different folders
Batches2 == { b \in Dirs \X Dirs : b[1] # b[2] }

InitBatch ==
    /\ fs \in [Dirs -> UserDirs]
    /\ archive_json \in {NoFile, CorruptFile}
    /\ orig = fs
    /\ run = NoRun
    /\ last = NoLast
    /\ q = NoQuery
    /\ s3 = NoObjects
    /\ cfg = DefaultCfg
    /\ writers = NoWriters

\* froster archive [--force] f1 f2 (small files are packed, the default):
\* archive(), up to the return of its first call of archive_locally
StartBatch(folders, is_tar, is_force) ==
    /\ run.status # "running"
    /\ ArchiveNext([ status |-> "running", folders |-> folders,
                     queue |-> Worklist(folders, FALSE),
                     is_recursive |-> FALSE, is_tar |-> is_tar,
                     is_force |-> is_force, code |-> 0, completed |-> {},
                     ext_ok |-> TRUE,
                     fresh |-> fs = orig /\ archive_json = NoFile,
                     failed |-> FALSE ], StepAnswers)

\* archive(), from one call of archive_locally to the return of the next
BatchStep ==
    /\ run.status = "running"
    /\ ArchiveNext(run, StepAnswers)

NextBatch ==
    \/ \E folders \in Batches2, is_force \in BOOLEAN :
          StartBatch(folders, TRUE, is_force)
    \/ BatchStep

SpecBatch == InitBatch /\ [][NextBatch]_vars

\* the folder holds files, all of them named as meta files, and no manifest
MetaOnly(d) ==
    /\ DOMAIN d # {}
    /\ DOMAIN d \subseteq dirmetafiles
    /\ md5sum_filename \notin DOMAIN d

\* C13: an archive_locally call on a folder without sub-directories whose
\* files are all meta files, the manifest not among them, does what it does
\* on an empty folder: no step runs, no file and no registry entry changes
C13_MetaOnlySkipped ==
    [][ ( /\ last'.op = "archive_locally"
          /\ Subdirs(last'.folder) = {}
          /\ MetaOnly(fs[last'.folder]) )
        => /\ last'.log = <<>>
           /\ last'.result \in {"skipped", "exit"}
           /\ fs' = fs
           /\ archive_json' = archive_json ]_vars

\* C14: when a batch over two folders has ended, no folder of it is left
\* that was not handed to archive_locally
C14_BatchContinues ==
    (run.status = "ended" /\ Len(run.folders) >= 2) => run.queue = <<>>

\* C15: the exit status of an ended batch is nonzero iff a folder of the
\* batch was rejected or failed a step
C15_ExitStatus ==
    run.status = "ended" => (run.code # 0 <=> run.failed)

\* the model's reading of "local artifacts of the earlier steps": the CSV
\* after a pack that succeeded, the manifest after a manifest step that did
ArtifactsLeft(log, d) ==
    /\ (Len(log) >= 2 => allfiles_csv_filename \in DOMAIN d)
    /\ (Len(log) >= 3 => md5sum_filename \in DOMAIN d)

\* C16: in an archive_locally call no step runs after one that failed; a
\* call that failed leaves the files of its earlier steps; a call reported as
\* completed had every step succeed and its folder is in the registry
C16_FailedStepStops ==
    [][ last'.op = "archive_locally" =>
          /\ LogInOrder(last'.log)
          /\ last'.result = "failed" =>
                /\ ~last'.log[Len(last'.log)].ok
                /\ ArtifactsLeft(last'.log, fs'[last'.folder])
                /\ archive_json' = archive_json
          /\ last'.result = "completed" =>
                /\ \A i \in 1..Len(last'.log) : last'.log[i].ok
                /\ _is_folder_archived(archive_json', last'.folder) ]_vars

\* C17: while the registry file is unparseable every lookup answers None,
\* no call ends the process as "already archived", and no call, the registry
\* write of a completed archive included, changes the file
C17_CorruptRegistryKept ==
    [][ archive_json.state = "corrupt" =>
          /\ \A d \in Dirs : archive_json_get_row(archive_json, d) = None
          /\ archive_json' = archive_json
          /\ ~(last'.result = "exit" /\ run'.code = 0) ]_vars

\* an archive_locally call that ran its five steps and reached the registry
\* write on an unparseable registry file
C17_Witness ==
    /\ archive_json = CorruptFile
    /\ last.op = "archive_locally"
    /\ last.result = "completed"
    /\ Len(last.log) = Len(Pipeline)

\* the manifest step of the last archive_locally call ran and failed
ManifestFailed ==
    /\ last.op = "archive_locally"
    /\ \E i \in 1..Len(last.log) :
          last.log[i].step = "manifest" /\ ~last.log[i].ok

\* C27: after an archive_locally call whose checksum step failed - no file
\* qualified, or hashing raised an error - the folder holds no manifest
\* .froster.md5sum, empty or partial
C27_NoManifestAfterFailure ==
    ManifestFailed => md5sum_filename \notin DOMAIN fs[last.folder]

(***************************************************************************)
(* The copier calls of archive_locally on their own: any configured        *)
(* storage class, any prepared folder                                      *)
(***************************************************************************)
\* the choices of froster config for the storage class
cfg_storage_classes == {"DEEP_ARCHIVE", "GLACIER", "INTELLIGENT_TIERING"}

\* the --exclude arguments of both rclone.copy calls
CopyExcludes ==
    { md5sum_filename, md5sum_restored_filename, allfiles_csv_filename,
      where_did_the_files_go_filename }

\* one rclone call: RCLONE_S3_STORAGE_CLASS of self.envrn when it ran, and
\* the files it was given
RcloneCall(cmd, envrn, files) ==
    [cmd |-> cmd, storage_class |-> envrn, files |-> files]

\* an archive_locally that sets the class back only after a successful CSV
\* upload
RcloneCallsResetOnSuccess(storage_class, d, ext) ==
    LET envrn0 == storage_class
        upload == RcloneCall("copy", envrn0, DOMAIN d \ CopyExcludes)
        envrn1 == "INTELLIGENT_TIERING"
        csv_upload == RcloneCall("copy", envrn1, {allfiles_csv_filename})
        envrn2 == IF ext = "csv_upload" THEN envrn1 ELSE storage_class
        verify == RcloneCall("checksum", envrn2, {md5sum_filename})
    IN  IF ext = "upload" THEN [calls |-> <<upload>>, envrn |-> envrn0]
        ELSE IF ext = "csv_upload"
          THEN [calls |-> <<upload, csv_upload>>, envrn |-> envrn2]
        ELSE [calls |-> <<upload, csv_upload, verify>>, envrn |-> envrn2]

\* archive_locally from "rclone = Rclone(self.args, self.cfg)" to the
\* verification, on the prepared folder d: the rclone calls made, in order,
\* and RCLONE_S3_STORAGE_CLASS of the object at the end; ext is the first
\* call to report failure, "ok" if none does
RcloneCalls(storage_class, d, ext) ==
    LET envrn0 == storage_class
        upload == RcloneCall("copy", envrn0, DOMAIN d \ CopyExcludes)
        envrn1 == "INTELLIGENT_TIERING"
        csv_upload == RcloneCall("copy", envrn1, {allfiles_csv_filename})
        envrn2 == storage_class
        verify == RcloneCall("checksum", envrn2, {md5sum_filename})
    IN  IF ext = "upload" THEN [calls |-> <<upload>>, envrn |-> envrn0]
        ELSE IF ext = "csv_upload"
          THEN [calls |-> <<upload, csv_upload>>, envrn |-> envrn2]
        ELSE [calls |-> <<upload, csv_upload, verify>>, envrn |-> envrn2]

\* the folders archive_prepare leaves ready: packed or not, with a manifest
PreparedFolders ==
    { _gen_md5sums(_gen_allfiles_and_tar(d, thresholdKB, is_tar), md5sum_filename) :
        d \in { [n \in names |-> PackFiles[n]] :
                    names \in (SUBSET DOMAIN PackFiles) \ {{}} },
        is_tar \in BOOLEAN }

NoCopier ==
    [ op |-> "none", folder |-> TheDir, flag |-> FALSE, log |-> <<>>,
      result |-> "none", answer |-> "ok", from_orig |-> TRUE,
      calls |-> <<>>, envrn |-> "none" ]

InitCopier ==
    /\ cfg \in [storage_class : cfg_storage_classes]
    /\ fs \in { [d \in Dirs |-> IF d = TheDir THEN f ELSE EmptyDir] :
                    f \in PreparedFolders }
    /\ orig = fs
    /\ archive_json = NoFile
    /\ run = NoRun
    /\ last = NoCopier
    /\ q = NoQuery
    /\ s3 = NoObjects
    /\ writers = NoWriters

\* the upload, CSV upload and verification of one archive_locally call
Upload(ext) ==
    /\ \E r \in {RcloneCalls(cfg.storage_class, fs[TheDir], ext)} :
          last' = [NoCopier EXCEPT !.op = "upload", !.answer = ext,
                                   !.calls = r.calls, !.envrn = r.envrn]
    /\ UNCHANGED <<fs, orig, archive_json, run, q, s3, cfg, writers>>

NextCopier == \E ext \in ExtAnswers : Upload(ext)

SpecCopier == InitCopier /\ [][NextCopier]_vars

\* C23: the folder upload is the first copier call, uses the configured
\* class and does not carry the allfiles CSV; the CSV upload is made only
\* after the folder upload succeeded and is the one call that uses
\* INTELLIGENT_TIERING whatever the configured class; the verification after
\* it uses the configured class, and the copier is back on the configured
\* class after the CSV upload, whether it succeeded or failed
C23_OverrideForOneCall ==
    last.op = "upload" =>
        LET calls == last.calls
        IN  /\ Len(calls) >= 1
            /\ calls[1].cmd = "copy"
            /\ calls[1].storage_class = cfg.storage_class
            /\ allfiles_csv_filename \notin calls[1].files
            /\ Len(calls) >= 2 <=> last.answer # "upload"
            /\ Len(calls) >= 2 =>
                  /\ calls[2].files = {allfiles_csv_filename}
                  /\ calls[2].storage_class = "INTELLIGENT_TIERING"
                  /\ last.envrn = cfg.storage_class
            /\ \A i \in 3..Len(calls) : calls[i].storage_class = cfg.storage_class

\* the three calls of a DEEP_ARCHIVE configuration, each having succeeded
C23_Witness ==
    /\ last.op = "upload"
    /\ cfg.storage_class = "DEEP_ARCHIVE"
    /\ Len(last.calls) = 3
    /\ last.calls[2].storage_class = "INTELLIGENT_TIERING"
    /\ last.calls[3].storage_class = "DEEP_ARCHIVE"
    /\ allfiles_csv_filename \in DOMAIN fs[TheDir]


(***************************************************************************)
(* Recursive-collision detector on its own: any list of folders            *)
(***************************************************************************)
RECURSIVE commonpath(_, _)
\* os.path.commonpath([a, b]): the longest common leading run of whole
\* components
commonpath(a, b) ==
    IF a = <<>> \/ b = <<>> THEN <<>>
    ELSE IF Head(a) = Head(b) THEN <<Head(a)>> \o commonpath(Tail(a), Tail(b))
    ELSE <<>>

\* a detector that only looks for folders[j] under folders[i]
_is_recursive_collision_one_way(folders) ==
    \E i \in 1..Len(folders) : \E j \in (i + 1)..Len(folders) :
        commonpath(folders[i], folders[j]) = folders[i]

\* _is_recursive_collision(folders): the two loops over i < j
_is_recursive_collision(folders) ==
    \E i \in 1..Len(folders) : \E j \in (i + 1)..Len(folders) :
        \/ commonpath(folders[i], folders[j]) = folders[i]
        \/ commonpath(folders[i], folders[j]) = folders[j]

\* /a, /a/b, /a/bc, /a/b/c and /d
CollisionPaths ==
    { <<"a">>, <<"a", "b">>, <<"a", "bc">>, <<"a", "b", "c">>, <<"d">> }

FolderLists == UNION { [1..n -> CollisionPaths] : n \in 0..MaxFolders }

InitCollision ==
    /\ fs = [d \in Dirs |-> EmptyDir]
    /\ orig = fs
    /\ archive_json = NoFile
    /\ run = NoRun
    /\ last = NoLast
    /\ q = NoQuery
    /\ s3 = NoObjects
    /\ cfg = DefaultCfg
    /\ writers = NoWriters

\* froster archive --recursive folders: the collision test of archive
CheckCollision(folders) ==
    /\ q' = [ folder |-> <<>>, row |-> None, source |-> <<>>, s3_dest |-> <<>>,
              folders |-> folders,
              is_collision |-> _is_recursive_collision(folders) ]
    /\ UNCHANGED <<fs, orig, archive_json, run, last, s3, cfg, writers>>

NextCollision == \E folders \in FolderLists : CheckCollision(folders)

SpecCollision == InitCollision /\ [][NextCollision]_vars

Checked == "folders" \in DOMAIN q

\* C24: the detector answers true exactly when two different positions of
\* the list hold the same folder or a folder and one of its ancestors by
\* whole components
C24_CollisionIff ==
    Checked =>
        ( q.is_collision <=>
            \E i, j \in 1..Len(q.folders) :
                i # j /\ IsPrefix(q.folders[i], q.folders[j]) )

\* a list whose later folder is the ancestor, next to a sibling whose name
\* only starts with the same text: /a/bc, /a/b/c, /a/b
C24_Witness ==
    /\ Checked
    /\ q.folders = << <<"a", "bc">>, <<"a", "b", "c">>, <<"a", "b">> >>
    /\ q.is_collision

\* /a/b and /a/bc do not collide
C24_NoCollision ==
    /\ Checked
    /\ q.folders = << <<"a", "b">>, <<"a", "bc">> >>
    /\ ~q.is_collision


(***************************************************************************)
(* Two processes in _archive_json_add_entry at once                        *)
(***************************************************************************)
Writers == {1, 2}

RECURSIVE JsonSize(_)
\* the length of json.dump(data): it grows with the number of entries and
\* with the length of each path, which every entry holds three times (key,
\* local_folder, archive_folder)
JsonSize(data) ==
    IF DOMAIN data = {} THEN 2
    ELSE LET k == CHOOSE k \in DOMAIN data : TRUE
         IN  10 + 3 * Len(k) + JsonSize([j \in DOMAIN data \ {k} |-> data[j]])

\* the length of the registry file
FileSize(file) ==
    IF file.state = "absent" THEN 0
    ELSE IF file.state = "ok" THEN JsonSize(file.data)
    ELSE file.size

\* open(self.archive_json, 'w'): the file exists and is empty
Truncated == [state |-> "corrupt", text |-> "", size |-> 0]

\* the file after a process wrote the text of data at offset 0 and closed:
\* a longer text written meanwhile by another process keeps its end
Flushed(file, data) ==
    IF JsonSize(data) >= FileSize(file) THEN [state |-> "ok", data |-> data]
    ELSE [state |-> "corrupt", text |-> "mixed", size |-> FileSize(file)]

\* the entry froster archive wrote earlier for another folder, /y
ArchivedY == _archive_json_add_entry(NoFile, <<"y">>, new_entry(<<"y">>, FALSE))

InitPut ==
    /\ archive_json \in {NoFile, ArchivedY}
    /\ writers \in { [w \in Writers |-> [pc |-> "start", key |-> keys[w],
                                         data |-> [k \in {} |-> None]]] :
                        keys \in {ks \in [Writers -> Dirs] : ks[1] # ks[2]} }
    /\ fs = [d \in Dirs |-> EmptyDir]
    /\ orig = fs
    /\ run = NoRun
    /\ last = NoLast
    /\ q = NoQuery
    /\ s3 = NoObjects
    /\ cfg = DefaultCfg

\* os.path.isfile, open(..., 'r') and json.load of writer w, then
\* data[key] = value; a file json.load cannot parse ends the call
PutRead(w) ==
    /\ writers[w].pc = "start"
    /\ writers' = [writers EXCEPT ![w] =
          IF archive_json.state = "corrupt" THEN [@ EXCEPT !.pc = "refused"]
          ELSE [@ EXCEPT !.pc = "loaded",
                         !.data = Overlay(IF archive_json.state = "ok"
                                          THEN archive_json.data
                                          ELSE [k \in {} |-> None],
                                          [k \in {writers[w].key} |->
                                              new_entry(k, FALSE)])]]
    /\ UNCHANGED <<fs, orig, archive_json, run, last, q, s3, cfg>>

\* open(self.archive_json, 'w') of writer w
PutOpen(w) ==
    /\ writers[w].pc = "loaded"
    /\ archive_json' = Truncated
    /\ writers' = [writers EXCEPT ![w].pc = "opened"]
    /\ UNCHANGED <<fs, orig, run, last, q, s3, cfg>>

\* json.dump and the close of the with block of writer w
PutClose(w) ==
    /\ writers[w].pc = "opened"
    /\ archive_json' = Flushed(archive_json, writers[w].data)
    /\ writers' = [writers EXCEPT ![w].pc = "done"]
    /\ last' = [NoLast EXCEPT !.op = "put", !.folder = writers[w].key]
    /\ UNCHANGED <<fs, orig, run, q, s3, cfg>>

NextPut == \E w \in Writers : PutRead(w) \/ PutOpen(w) \/ PutClose(w)

SpecPut == InitPut /\ [][NextPut]_vars

\* every writer left _archive_json_add_entry, and one of them wrote
AllPut ==
    /\ \A w \in Writers : writers[w].pc \in {"done", "refused"}
    /\ last.op = "put"

\* the writer that closed the file last
LastWriter == CHOOSE w \in Writers : writers[w].key = last.folder

\* C25: once both writers are through, the registry is exactly what the
\* writer that closed last wrote - what it had read plus its own entry; it
\* holds both entries when that writer read after the other had written
C25_LastWriterWins ==
    AllPut =>
        /\ archive_json.state = "ok"
        /\ archive_json.data = writers[LastWriter].data

\* interleaved writers: both wrote, and the entry of one is missing
C25_LostEntry ==
    /\ AllPut
    /\ \A w \in Writers : writers[w].pc = "done"
    /\ archive_json.state = "ok"
    /\ \E w \in Writers : writers[w].key \notin DOMAIN archive_json.data

\* serialized writers: both entries are present
C25_BothEntries ==
    /\ AllPut
    /\ archive_json.state = "ok"
    /\ \A w \in Writers : writers[w].key \in DOMAIN archive_json.data


(***************************************************************************)
(* Indexer on its own: the hotspots of any pwalk output                    *)
(***************************************************************************)
MiB == 1048576
GiB == 1073741824

\* the rows of the pwalk output left by grep -v ",-1,0$": pw_fcount is -1 on
\* the line of a file, the number of files on the line of a directory
PwalkRows ==
    [ pw_fcount : {-1, 0, 1, 200},
      pw_dirsum : {0, 5 * MiB, GiB, GiB + GiB \div 2} ]

PwalkOutputs == UNION { [1..n -> PwalkRows] : n \in 0..MaxRows }

\* min_index_folder_size_gib and min_index_folder_size_avg_mib
IndexThresholds == [thresholdGB : {0, 1}, thresholdMB : {1, 10}]

RECURSIVE OrderByDirsumDesc(_)
\* ORDER BY pw_dirsum Desc
OrderByDirsumDesc(rows) ==
    IF rows = <<>> THEN <<>>
    ELSE LET i == CHOOSE i \in 1..Len(rows) :
                    \A j \in 1..Len(rows) : rows[i].pw_dirsum >= rows[j].pw_dirsum
         IN  <<rows[i]>> \o OrderByDirsumDesc(
                 [j \in 1..(Len(rows) - 1) |-> IF j < i THEN rows[j] ELSE rows[j + 1]])

\* a query that keeps only the directories that hold a file
SelectedWithFiles(rows) ==
    OrderByDirsumDesc(SelectSeq(rows,
        LAMBDA r : r.pw_fcount > 0 /\ r.pw_dirsum > 0))

\* the rows of the SQL query: WHERE pw_fcount > -1 AND pw_dirsum > 0
Selected(rows) ==
    OrderByDirsumDesc(SelectSeq(rows,
        LAMBDA r : r.pw_fcount > -1 /\ r.pw_dirsum > 0))

\* row[3] >= self.thresholdGB, row[3] being pw_dirsum/1073741824
AtLeastGiB(r, t) == r.pw_dirsum >= t.thresholdGB * GiB

\* row[4] >= self.thresholdMB, row[4] being pw_dirsum/1048576/pw_fcount
AtLeastMiBAvg(r, t) == (r.pw_dirsum \div MiB) \div r.pw_fcount >= t.thresholdMB

RECURSIVE WriteHotspots(_, _, _)
\* the loop "for r in rows" of _index_locally: the rows written so far, and
\* how the loop ends; the average of a directory without files is a division
\* by zero, which DuckDB answers by NULL or by infinity depending on its
\* release: NULL >= self.thresholdMB raises TypeError, int(infinity) raises
\* OverflowError, both before the row is written
WriteHotspots(rows, t, written) ==
    IF rows = <<>> THEN [result |-> "done", hotspots |-> written]
    ELSE LET r == Head(rows)
         IN  IF ~AtLeastGiB(r, t) THEN WriteHotspots(Tail(rows), t, written)
             ELSE IF r.pw_fcount = 0
               THEN [result |-> "raised", hotspots |-> written]
             ELSE IF AtLeastMiBAvg(r, t)
               THEN WriteHotspots(Tail(rows), t, Append(written, r))
             ELSE WriteHotspots(Tail(rows), t, written)

\* _index_locally from the SQL query on
_index_locally(rows, t) == WriteHotspots(Selected(rows), t, <<>>)

NoIndex(rows, t) ==
    [ op |-> "none", folder |-> <<>>, flag |-> FALSE, log |-> <<>>,
      result |-> "none", answer |-> TRUE, from_orig |-> TRUE,
      rows |-> rows, thresholds |-> t, hotspots |-> <<>> ]

InitIndex ==
    /\ last \in { NoIndex(rows, t) : rows \in PwalkOutputs, t \in IndexThresholds }
    /\ fs = [d \in Dirs |-> EmptyDir]
    /\ orig = fs
    /\ archive_json = NoFile
    /\ run = NoRun
    /\ q = NoQuery
    /\ s3 = NoObjects
    /\ cfg = DefaultCfg
    /\ writers = NoWriters

\* froster index folder, pwalk having written last.rows
Index ==
    /\ last.op = "none"
    /\ \E r \in {_index_locally(last.rows, last.thresholds)} :
          last' = [last EXCEPT !.op = "index", !.result = r.result,
                               !.hotspots = r.hotspots]
    /\ UNCHANGED <<fs, orig, archive_json, run, q, s3, cfg, writers>>

NextIndex == Index

SpecIndex == InitIndex /\ [][NextIndex]_vars

\* the claimed condition for a hotspots row
IsHotspot(r, t) ==
    /\ r.pw_fcount > 0
    /\ r.pw_dirsum > 0
    /\ r.pw_dirsum >= t.thresholdGB * GiB
    /\ r.pw_dirsum >= t.thresholdMB * r.pw_fcount * MiB

glacier_classes == {"GLACIER", "DEEP_ARCHIVE"}

\* what head_object may report as StorageClass; "absent" is a header
\* without the field
StorageClasses == {"DEEP_ARCHIVE", "INTELLIGENT_TIERING", "absent"}

\* the objects of the bucket: two under archive/x/ and one under archive/x/y/
ObjectKeys ==
    { <<archive_dir, "x", "a.bin">>,
      <<archive_dir, "x", allfiles_csv_filename>>,
      <<archive_dir, "x", "y", "a.bin">> }

Header(class) ==
    [ StorageClass |-> class, Restore |-> "absent", accepted |-> 0,
      body |-> UserFiles["a.bin"] ]

\* archive_get_bucket_info: the prefix is the archive_folder of the entry
\* after the bucket name, whatever the folder asked for
BucketPrefix(rowdict) == Tail(rowdict.archive_folder)

\* the keys the loops over pages and page['Contents'] do not skip
ListedKeys(objects, prefix, recursive) ==
    {k \in DOMAIN objects :
        /\ IsStrictAncestor(prefix, k)
        /\ recursive \/ Len(k) = Len(prefix) + 1}

\* a controller that asks for a retrieval whatever the Restore header says
RequestedKeysAny(objects, listed) ==
    {k \in listed : objects[k].StorageClass \in glacier_classes}

\* the keys for which s3.restore_object is called
RequestedKeys(objects, listed) ==
    {k \in listed :
        /\ objects[k].StorageClass \in glacier_classes
        /\ objects[k].Restore = "absent"}

\* what the bucket may answer to restore_object on an object: 200/202, the
\* error RestoreAlreadyInProgress (a retrieval is running, perhaps asked for
\* by someone else a moment ago), or another error
RequestAnswers(h) ==
    IF h.Restore = "ongoing" THEN {"RestoreAlreadyInProgress", "failed"}
    ELSE {"failed"}
         \cup (IF h.accepted < MaxAccepted THEN {"accepted"} ELSE {})
         \cup (IF h.Restore = "absent" THEN {"RestoreAlreadyInProgress"} ELSE {})

\* the object after restore_object was answered ans
AfterRequest(h, ans) ==
    IF ans = "accepted"
      THEN [h EXCEPT !.accepted = @ + 1,
                     !.Restore = IF @ = "done" THEN "done" ELSE "ongoing"]
    ELSE IF ans = "RestoreAlreadyInProgress"
      THEN [h EXCEPT !.Restore = IF @ = "absent" THEN "ongoing" ELSE @]
    ELSE h

\* the list _glacier_restore appends key k to, "none" when it appends it to
\* no list; ans is the answer to the request, if one is sent
KeyList(h, requested, ans) ==
    IF h.StorageClass = "absent" THEN "none"
    ELSE IF h.StorageClass \notin glacier_classes THEN "not_glacier_keys"
    ELSE IF requested
      THEN IF ans = "accepted" THEN "triggered_keys"
           ELSE IF ans = "RestoreAlreadyInProgress" THEN "restoring_keys"
           ELSE "none"
    ELSE IF h.Restore = "ongoing" THEN "restoring_keys"
    ELSE IF h.Restore = "done" THEN "restored_keys"
    ELSE "none"

\* _glacier_restore(bucket, prefix, keep_days, ret_opt, recursive): what it
\* returns and the bucket it leaves; answers maps each requested key to the
\* answer of the bucket; a ClientError at the listing returns three lists
_glacier_restore(objects, prefix, recursive, listing_ok, answers) ==
    LET listed == ListedKeys(objects, prefix, recursive)
        requested == RequestedKeys(objects, listed)
        where == [k \in listed |->
                    KeyList(objects[k], k \in requested,
                            IF k \in requested THEN answers[k] ELSE "none")]
        list(name) == {k \in listed : where[k] = name}
    IN  IF ~listing_ok
          THEN [ lists |-> 3, listed |-> {}, requested |-> {},
                 triggered_keys |-> {}, restoring_keys |-> {},
                 restored_keys |-> {}, not_glacier_keys |-> {},
                 objects |-> objects ]
        ELSE [ lists |-> 4, listed |-> listed, requested |-> requested,
               triggered_keys |-> list("triggered_keys"),
               restoring_keys |-> list("restoring_keys"),
               restored_keys |-> list("restored_keys"),
               not_glacier_keys |-> list("not_glacier_keys"),
               objects |-> [k \in DOMAIN objects |->
                              IF k \in requested
                              THEN AfterRequest(objects[k], answers[k])
                              ELSE objects[k]] ]

\* the objects rclone can read: not in Glacier, or retrieved
Retrievable(h) == h.StorageClass \notin glacier_classes \/ h.Restore = "done"

\* the keys rclone.copy(source, target[, '--max-depth', '1']) reads
CopiedKeys(objects, source, recursive) ==
    {k \in DOMAIN objects :
        /\ IsStrictAncestor(source, k)
        /\ recursive \/ Len(k) = Len(source) + 1
        /\ Retrievable(objects[k])}

\* a restore that goes on to the download whatever the controller returned
restore_download_anyway(folder, file, objects, listing_ok, answers, nodownload, copy_ok) ==
    LET rowdict == archive_json_get_row(file, folder)
        recursive == rowdict.archive_mode = "Recursive"
        tail == restore_tail(rowdict, folder)
        source == Tail(rowdict.archive_folder) \o tail
        isglacier == rowdict.s3_storage_class \in glacier_classes
        g == _glacier_restore(objects, BucketPrefix(rowdict), recursive,
                              listing_ok, answers)
        pending == Cardinality(g.triggered_keys) + Cardinality(g.restoring_keys)
    IN  IF rowdict = None
          THEN [kind |-> "False", n |-> 0, copied |-> {}, source |-> <<>>,
                g |-> [lists |-> 0, objects |-> objects]]
        ELSE IF folder # rowdict.local_folder /\ ~recursive
          THEN [kind |-> "False", n |-> 0, copied |-> {}, source |-> source,
                g |-> [lists |-> 0, objects |-> objects]]
        ELSE IF isglacier /\ g.lists # 4
          THEN [kind |-> "raised", n |-> 0, copied |-> {}, source |-> source, g |-> g]
        ELSE IF nodownload
          THEN [kind |-> "nodownload", n |-> -1, copied |-> {},
                source |-> source, g |-> g]
        ELSE [kind |-> "raised", n |-> 0,
              copied |-> IF copy_ok THEN CopiedKeys(g.objects, source, recursive)
                         ELSE {},
              source |-> source, g |-> g]

\* restore(folder): kind is how the call ends - "False", "pending" (n is the
\* number returned), "nodownload" (n is -1), or "raised": the lists of the
\* controller could not be unpacked, or ret['stats'] was read from the bool
\* that rclone.copy returns; copied is what the copier wrote before that
restore(folder, file, objects, listing_ok, answers, nodownload, copy_ok) ==
    LET rowdict == archive_json_get_row(file, folder)
        recursive == rowdict.archive_mode = "Recursive"
        tail == restore_tail(rowdict, folder)
        source == Tail(rowdict.archive_folder) \o tail
        isglacier == rowdict.s3_storage_class \in glacier_classes
        g == _glacier_restore(objects, BucketPrefix(rowdict), recursive,
                              listing_ok, answers)
        pending == Cardinality(g.triggered_keys) + Cardinality(g.restoring_keys)
    IN  IF rowdict = None
          THEN [kind |-> "False", n |-> 0, copied |-> {}, source |-> <<>>,
                g |-> [lists |-> 0, objects |-> objects]]
        ELSE IF folder # rowdict.local_folder /\ ~recursive
          THEN [kind |-> "False", n |-> 0, copied |-> {}, source |-> source,
                g |-> [lists |-> 0, objects |-> objects]]
        ELSE IF isglacier /\ g.lists # 4
          THEN [kind |-> "raised", n |-> 0, copied |-> {}, source |-> source, g |-> g]
        ELSE IF isglacier /\ pending > 0
          THEN [kind |-> "pending", n |-> pending, copied |-> {},
                source |-> source, g |-> g]
        ELSE IF nodownload
          THEN [kind |-> "nodownload", n |-> -1, copied |-> {},
                source |-> source, g |-> g]
        ELSE [kind |-> "raised", n |-> 0,
              copied |-> IF copy_ok THEN CopiedKeys(g.objects, source, recursive)
                         ELSE {},
              source |-> source, g |-> g]

\* the registry after froster archive [--recursive] /x completed
ArchivedX(is_recursive) ==
    _archive_json_add_entry(NoFile, <<"x">>, new_entry(<<"x">>, is_recursive))

NoRestore ==
    [ op |-> "none", folder |-> <<>>, flag |-> FALSE, log |-> <<>>,
      result |-> "none", answer |-> TRUE, from_orig |-> TRUE,
      n |-> 0, lists |-> 0, listed |-> {}, requested |-> {},
      triggered_keys |-> {}, restoring_keys |-> {}, restored_keys |-> {},
      not_glacier_keys |-> {}, copied |-> {} ]

InitGlacier ==
    /\ s3 \in [ObjectKeys -> {Header(class) : class \in StorageClasses}]
    /\ cfg = DefaultCfg
    /\ writers = NoWriters
    /\ archive_json \in {ArchivedX(is_recursive) : is_recursive \in BOOLEAN}
    /\ fs = [d \in Dirs |-> EmptyDir]
    /\ orig = fs
    /\ run = NoRun
    /\ last = NoRestore
    /\ q = NoQuery

\* the files the copier wrote into local folder d
Downloaded(objects, copied, source, folder, d) ==
    LET here == {k \in copied :
                    folder \o SubSeq(k, Len(source) + 1, Len(k) - 1) = d}
    IN  [n \in {k[Len(k)] : k \in here} |->
            objects[CHOOSE k \in here : k[Len(k)] = n].body]

\* the keys a call of restore(folder) sends a request for
RestoreRequests(folder, file, objects, listing_ok) ==
    LET rowdict == archive_json_get_row(file, folder)
        recursive == rowdict.archive_mode = "Recursive"
    IN  IF rowdict = None THEN {}
        ELSE IF folder # rowdict.local_folder /\ ~recursive THEN {}
        ELSE IF rowdict.s3_storage_class \notin glacier_classes THEN {}
        ELSE IF ~listing_ok THEN {}
        ELSE RequestedKeys(objects,
                           ListedKeys(objects, BucketPrefix(rowdict), recursive))

\* one call of Archiver.restore(folder), args.nodownload given; answers are
\* the answers of the bucket to the requests, copy_ok whether rclone ran
Restore(folder, listing_ok, nodownload, copy_ok) ==
    \E answers \in [RestoreRequests(folder, archive_json, s3, listing_ok) ->
                        {"accepted", "RestoreAlreadyInProgress", "failed"}] :
    \E r \in {restore(folder, archive_json, s3, listing_ok, answers,
                      nodownload, copy_ok)} :
        /\ \A k \in DOMAIN answers : answers[k] \in RequestAnswers(s3[k])
        /\ (r.kind \in {"False", "pending"} \/ r.g.lists = 3)
              => ~nodownload /\ copy_ok
        /\ r.kind = "nodownload" => copy_ok
        /\ s3' = r.g.objects
        /\ fs' = [d \in Dirs |->
                    Overlay(fs[d], Downloaded(s3', r.copied, r.source, folder, d))]
        /\ last' = [ op |-> "restore", folder |-> folder, flag |-> nodownload,
                     log |-> <<>>, result |-> r.kind, answer |-> copy_ok,
                     from_orig |-> TRUE, n |-> r.n, lists |-> r.g.lists,
                     listed |-> IF r.g.lists = 4 THEN r.g.listed ELSE {},
                     requested |-> IF r.g.lists = 4 THEN r.g.requested ELSE {},
                     triggered_keys |-> IF r.g.lists = 4 THEN r.g.triggered_keys ELSE {},
                     restoring_keys |-> IF r.g.lists = 4 THEN r.g.restoring_keys ELSE {},
                     restored_keys |-> IF r.g.lists = 4 THEN r.g.restored_keys ELSE {},
                     not_glacier_keys |-> IF r.g.lists = 4 THEN r.g.not_glacier_keys ELSE {},
                     copied |-> r.copied ]
        /\ UNCHANGED <<orig, archive_json, run, q, cfg, writers>>

\* the bucket finishes the retrieval of object k
Retrieved(k) ==
    /\ s3[k].Restore = "ongoing"
    /\ s3' = [s3 EXCEPT ![k].Restore = "done"]
    /\ UNCHANGED <<fs, orig, archive_json, run, last, q, cfg, writers>>

NextGlacier ==
    \/ \E folder \in Dirs, listing_ok, nodownload, copy_ok \in BOOLEAN :
          Restore(folder, listing_ok, nodownload, copy_ok)
    \/ \E k \in ObjectKeys : Retrieved(k)

SpecGlacier == InitGlacier /\ [][NextGlacier]_vars

\* the keys under the prefix of the entry that the last restore call was
\* about, without those in sub-folders when the entry is not recursive
UnderPrefix ==
    LET rowdict == archive_json_get_row(archive_json, last.folder)
    IN  ListedKeys(s3, BucketPrefix(rowdict), rowdict.archive_mode = "Recursive")

\* the lists of the last call that hold key k
ListsOf(k) ==
    {name \in {"triggered_keys", "restoring_keys", "restored_keys",
               "not_glacier_keys"} : k \in last[name]}

\* C18: whenever restore called the Glacier controller, the controller
\* returned four lists, every key under the prefix is in exactly one of them,
\* and the keys of not_glacier are those whose storage class is neither
\* GLACIER nor DEEP_ARCHIVE, a header without storage class included
C18_FourListsPartition ==
    last.lists # 0 =>
        /\ last.lists = 4
        /\ \A k \in UnderPrefix :
              /\ Cardinality(ListsOf(k)) = 1
              /\ k \in last.not_glacier_keys
                    <=> s3[k].StorageClass \notin glacier_classes

\* the keys the last call of restore counted as pending
Pending == last.triggered_keys \cup last.restoring_keys

\* C19: a call of restore on a Glacier entry for which the controller returns
\* a non-empty triggered or restoring list returns the positive number
\* |triggered| + |restoring|, downloads nothing and leaves every local file
\* as it was; local files change only in a call where both lists are empty
C19_PendingReturnsCount ==
    [][ /\ (last'.op = "restore" /\ Pending' # {}) =>
              /\ last'.result = "pending"
              /\ last'.n = Cardinality(last'.triggered_keys)
                              + Cardinality(last'.restoring_keys)
              /\ last'.n > 0
              /\ last'.copied = {}
              /\ fs' = fs
        /\ (fs' # fs \/ last'.copied # {}) => Pending' = {} ]_vars

\* a call found one retrieval to trigger and one already running, and
\* returned 2
C19_Witness ==
    /\ last.op = "restore"
    /\ last.result = "pending"
    /\ last.n = 2
    /\ Cardinality(last.triggered_keys) = 1
    /\ Cardinality(last.restoring_keys) = 1
    /\ fs = orig

\* restore went on to the download: both lists empty, objects copied
C19_Downloaded ==
    /\ last.op = "restore"
    /\ Pending = {}
    /\ last.restored_keys # {}
    /\ last.copied # {}
    /\ fs # orig

\* the step is the bucket finishing a retrieval, not a call of restore
IsRetrieved == \E k \in ObjectKeys : s3[k].Restore = "ongoing" /\ s3'[k].Restore = "done"

\* C20: over any sequence of restore calls on a Glacier folder, a request is
\* sent for an object only while its header shows no Restore record, no
\* object has more than one request accepted, a record only moves from
\* absent to ongoing to done, and an object whose request is answered
\* RestoreAlreadyInProgress is counted as restoring by a call that returns
\* the number of pending keys
C20_NoDuplicateRequests ==
    [][ /\ (~IsRetrieved /\ last'.op = "restore") =>
              \A k \in last'.requested : s3[k].Restore = "absent"
        /\ \A k \in ObjectKeys :
              /\ s3'[k].accepted > s3[k].accepted => s3[k].Restore = "absent"
              /\ s3'[k].accepted <= 1
              /\ s3[k].Restore = "ongoing" => s3'[k].Restore \in {"ongoing", "done"}
              /\ s3[k].Restore = "done" => s3'[k].Restore = "done"
              /\ ( /\ s3[k].Restore = "absent"
                   /\ s3'[k].Restore = "ongoing"
                   /\ s3'[k].accepted = s3[k].accepted )
                    => k \in last'.restoring_keys /\ last'.result = "pending" ]_vars

\* the retrieval of an object was triggered by one call, the bucket finished
\* it, and a later call found it completed and sent no request
C20_Witness ==
    \E k \in ObjectKeys :
        /\ last.op = "restore"
        /\ k \in last.restored_keys
        /\ s3[k].accepted = 1
        /\ s3[k].Restore = "done"
        /\ last.requested = {}

\* the key prefix the last restore call copied from
LastSource ==
    LET rowdict == archive_json_get_row(archive_json, last.folder)
    IN  Tail(rowdict.archive_folder) \o restore_tail(rowdict, last.folder)

\* C22: a restore call whose copier downloaded files ends by returning, not
\* by raising; when it returns success the restored manifest
\* .froster-restored.md5sum is in the folder and Froster.smallfiles.tar is
\* unpacked; the downloaded files stay in place either way
C22_RestoreVerifiesAfterCopy ==
    (last.op = "restore" /\ last.copied # {}) =>
        /\ last.result \in {"restored", "False"}
        /\ last.result = "restored" =>
              /\ md5sum_restored_filename \in DOMAIN fs[last.folder]
              /\ smallfiles_tar_filename \notin DOMAIN fs[last.folder]
        /\ \A d \in Dirs :
              DOMAIN Downloaded(s3, last.copied, LastSource, last.folder, d)
                  \subseteq DOMAIN fs[d]

\* the keys under the source of the last restore call that its copier is
\* asked for: every level for a Recursive entry, else the first level
OwnKeys ==
    LET rowdict == archive_json_get_row(archive_json, last.folder)
    IN  {k \in ObjectKeys :
            /\ IsStrictAncestor(LastSource, k)
            /\ rowdict.archive_mode = "Recursive" \/ Len(k) = Len(LastSource) + 1}

\* the Glacier objects under the source of the last restore call whose
\* retrieval has not completed
NotReady ==
    {k \in OwnKeys : /\ s3[k].StorageClass \in glacier_classes
                     /\ s3[k].Restore # "done"}

\* C30: a restore call on a Glacier folder requests a retrieval only for
\* objects under the folder's own remote source, counts as pending exactly
\* the Glacier objects under that source that are not ready, and reaches the
\* download only when none of them is left, whatever the bucket answered to
\* the requests
C30_PendingIsOwnNotReady ==
    [][ (~IsRetrieved /\ last'.op = "restore" /\ last'.lists = 4) =>
          /\ last'.requested \subseteq OwnKeys'
          /\ Pending' = NotReady'
          /\ last'.result \in {"raised", "nodownload"} => NotReady' = {} ]_vars

(***************************************************************************)
(* Delete of an archived folder the user went on writing into              *)
(***************************************************************************)
\* the files a user may add to /x after it was archived
AddedFiles ==
    [n \in {"new.bin", "new.txt"} |->
        IF n = "new.bin" THEN DataFile(3 * 1024 * 1024, "N") ELSE DataFile(200, "M")]

\* /x as a completed froster archive /x left it, and the registry it wrote
InitDelete ==
    /\ \E d \in UserDirs \ {EmptyDir}, is_tar, is_recursive \in BOOLEAN :
          /\ orig = [f \in Dirs |-> IF f = TheDir THEN d ELSE EmptyDir]
          /\ fs = [orig EXCEPT ![TheDir] =
                      archive_prepare(TheDir, d, NoFile, is_tar, FALSE, "ok").dir]
          /\ archive_json = ArchivedX(is_recursive)
    /\ run = NoRun
    /\ last = NoLast
    /\ q = NoQuery
    /\ s3 = NoObjects
    /\ cfg = DefaultCfg
    /\ writers = NoWriters

\* the user writes a new file into the archived folder
AddFile(n) ==
    /\ n \notin DOMAIN fs[TheDir]
    /\ fs' = [fs EXCEPT ![TheDir] = Overlay(@, [m \in {n} |-> AddedFiles[n]])]
    /\ last' = [NoLast EXCEPT !.op = "add", !.folder = TheDir]
    /\ UNCHANGED <<orig, archive_json, run, q, s3, cfg, writers>>

NextDelete ==
    \/ \E n \in DOMAIN AddedFiles : AddFile(n)
    \/ \E checksum_ok \in BOOLEAN : Delete(TheDir, checksum_ok)

SpecDelete == InitDelete /\ [][NextDelete]_vars

\* the names listed in the manifest delete_locally hands to the verifier
VerifiedNames(d) ==
    IF md5sum_filename \in DOMAIN d THEN DOMAIN d[md5sum_filename].data
    ELSE IF md5sum_restored_filename \in DOMAIN d
      THEN DOMAIN d[md5sum_restored_filename].data
    ELSE {}

\* C28: every file a successful delete removes is listed in the manifest that
\* the same call checked against the remote; a file written into the folder
\* after it was archived is not removed
C28_DeleteOnlyVerified ==
    [][ (last'.op = "delete" /\ last'.result = "deleted") =>
          \A n \in DOMAIN fs[last'.folder] \ DOMAIN fs'[last'.folder] :
              n \in VerifiedNames(fs[last'.folder]) ]_vars

(***************************************************************************)
(* The registry under archive, delete, restore and reset, one process at   *)
(* a time                                                                  *)
(***************************************************************************)
\* the paths a registry lookup is made for
RegistryPaths == Dirs \cup {<<"x", "y", "z">>}

InitRegistry ==
    /\ fs = [d \in Dirs |-> [n \in {"a.bin"} |-> UserFiles[n]]]
    /\ archive_json = NoFile
    /\ orig = fs
    /\ run = NoRun
    /\ last = NoLast
    /\ q = NoQuery
    /\ s3 = NoObjects
    /\ cfg = DefaultCfg
    /\ writers = NoWriters

\* froster restore started when no other froster process runs
RestoreAlone(folder, listing_ok, nodownload, copy_ok) ==
    /\ run.status # "running"
    /\ Restore(folder, listing_ok, nodownload, copy_ok)

NextRegistry ==
    \/ Next
    \/ \E folder \in Dirs, listing_ok, nodownload, copy_ok \in BOOLEAN :
          RestoreAlone(folder, listing_ok, nodownload, copy_ok)

SpecRegistry == InitRegistry /\ [][NextRegistry]_vars

\* C29: no operation removes an entry of the registry or changes the entry
\* of a key, and a lookup that returned an entry returns the same entry in
\* every later state
C29_RegistryAppendOnly ==
    [][ /\ archive_json.state = "ok" =>
              /\ archive_json'.state = "ok"
              /\ \A k \in DOMAIN archive_json.data :
                    /\ k \in DOMAIN archive_json'.data
                    /\ archive_json'.data[k] = archive_json.data[k]
        /\ \A P \in RegistryPaths :
              archive_json_get_row(archive_json, P) # None =>
                  archive_json_get_row(archive_json', P)
                      = archive_json_get_row(archive_json, P) ]_vars

\* archive /x/y was called after archive --recursive /x registered /x
C29_Witness ==
    /\ archive_json.state = "ok"
    /\ last.op = "archive_locally"
    /\ last.folder = <<"x", "y">>
    /\ last.result = "exit"
    /\ run.folders = << <<"x", "y">> >>
    /\ <<"x">> \in DOMAIN archive_json.data
    /\ archive_json.data[<<"x">>].archive_mode = "Recursive"
    /\ archive_json_get_row(archive_json, <<"x", "y">>) = archive_json.data[<<"x">>]

====
